---------------------------- MODULE Spec2Model ----------------------------
(***************************************************************************)
(* A model of the IRC-style chat engine of chat.py: the wire codec         *)
(* (_split_irc_command, _make_irc_command), the server (IRCUser,           *)
(* IRCChannel, IRCServer) and the receive loop of IRCClient.               *)
(*                                                                         *)
(* Bytes are modelled as TLA+ strings; positions are 0-based as in the     *)
(* Python source.  Python's None is the empty tuple None, and an optional  *)
(* string x is the one-element tuple <<x>>.                                *)
(***************************************************************************)
EXTENDS Integers, Sequences, FiniteSets, TLC

(***************************************************************************)
(* Python string primitives.                                               *)
(***************************************************************************)

None == << >>

Some(x) == << x >>

\* str(x) of an optional string, as an f-string formats it.
Str(o) == IF o = None THEN "None" ELSE o[1]

\* s[i], 0 <= i < len(s)
At(s, i) == SubSeq(s, i + 1, i + 1)

Clamp(n, i) == IF i < 0 THEN (IF n + i < 0 THEN 0 ELSE n + i)
               ELSE (IF i > n THEN n ELSE i)

\* s[a:b]
Slice(s, a, b) ==
    LET lo == Clamp(Len(s), a)
        hi == Clamp(Len(s), b)
    IN  IF lo >= hi THEN "" ELSE SubSeq(s, lo + 1, hi)

\* s[a:]
SliceFrom(s, a) == Slice(s, a, Len(s))

\* s.find(ch, start): the least index >= start holding ch, or -1
RECURSIVE Find(_, _, _)
Find(s, ch, start) ==
    IF start >= Len(s) THEN -1
    ELSE IF At(s, start) = ch THEN start
    ELSE Find(s, ch, start + 1)

\* ch in s
Contains(s, ch) == Find(s, ch, 0) # -1

\* s.split(sep): never empty, "".split(",") = [""]
RECURSIVE Split(_, _)
Split(s, sep) ==
    LET i == Find(s, sep, 0)
    IN  IF i = -1 THEN << s >>
        ELSE << Slice(s, 0, i) >> \o Split(SliceFrom(s, i + 1), sep)

Lower == "abcdefghijklmnopqrstuvwxyz"

UpperLetters == "ABCDEFGHIJKLMNOPQRSTUVWXYZ"

\* s.upper()
RECURSIVE Upper(_)
Upper(s) ==
    IF s = "" THEN ""
    ELSE LET c == At(s, 0)
             i == Find(Lower, c, 0)
         IN  (IF i = -1 THEN c ELSE At(UpperLetters, i)) \o Upper(SliceFrom(s, 1))

Digits == "0123456789"

\* A byte that is not valid UTF-8 stands in the model as this character.
BadByte == "\f"

\* bytes.decode() raises UnicodeDecodeError on such a byte.
Decodes(s) == ~Contains(s, BadByte)

RECURSIVE AllDigits(_)
AllDigits(s) == s = "" \/ (Contains(Digits, At(s, 0)) /\ AllDigits(SliceFrom(s, 1)))

\* int(s) succeeds (on the model's alphabet: an unsigned decimal numeral)
IsInt(s) == s # "" /\ AllDigits(s)

RECURSIVE IntOf(_)
IntOf(s) ==
    IF s = "" THEN 0
    ELSE 10 * IntOf(Slice(s, 0, Len(s) - 1)) + Find(Digits, At(s, Len(s) - 1), 0)

\* str(n) of a natural number
RECURSIVE StrOfNat(_)
StrOfNat(n) ==
    IF n < 10 THEN At(Digits, n)
    ELSE StrOfNat(n \div 10) \o At(Digits, n % 10)

(***************************************************************************)
(* The wire codec.                                                         *)
(***************************************************************************)

MinFrameLen == 3

MaxFrameLen == 512

MaxParts == 15

\* The while loop of _split_irc_command: the parts read from position idx
\* on, or the tuple <<FALSE>> in place of the parts when it returns False.
RECURSIVE SplitLoop(_, _, _)
SplitLoop(command, idx, parts) ==
    IF ~(idx < Len(command) - 1) THEN [ok |-> TRUE, parts |-> parts]
    ELSE IF Len(parts) = MaxParts THEN [ok |-> FALSE, parts |-> parts]
    ELSE IF At(command, idx + 1) = ":"
         THEN [ok |-> TRUE, parts |-> Append(parts, SliceFrom(command, idx + 2))]
    ELSE LET next == Find(command, " ", idx + 1)
             part == IF next # -1 THEN Slice(command, idx + 1, next)
                     ELSE SliceFrom(command, idx + 1)
         IN  IF next - idx = 1 THEN [ok |-> FALSE, parts |-> parts]
             ELSE IF next = -1 THEN [ok |-> TRUE, parts |-> Append(parts, part)]
             ELSE SplitLoop(command, next, Append(parts, part))

\* _split_irc_command: kind is "ok" (a tuple is returned), "false" (False is
\* returned) or "raise" (UnicodeDecodeError).
SplitIrcCommand(raw) ==
    LET failed == [kind |-> "false", prefix |-> None, cmd |-> "", params |-> << >>]
        raised == [kind |-> "raise", prefix |-> None, cmd |-> "", params |-> << >>]
    IN
    IF Slice(raw, -2, Len(raw)) # "\r\n" \/ Len(raw) < MinFrameLen \/ Len(raw) > MaxFrameLen
    THEN failed
    ELSE
      LET command   == Slice(raw, 0, -2)
          hasPrefix == At(command, 0) = ":"
          prefixend == Find(command, " ", 0)
          prefixRaw == Slice(command, 1, prefixend)
          idx       == IF hasPrefix THEN prefixend ELSE -1
          loop      == SplitLoop(command, idx, << >>)
      IN  IF hasPrefix /\ ~Decodes(prefixRaw) THEN raised
          ELSE IF ~loop.ok \/ loop.parts = << >> THEN failed
          ELSE IF \E i \in 1..Len(loop.parts) : ~Decodes(loop.parts[i]) THEN raised
          ELSE [kind   |-> "ok",
                prefix |-> IF hasPrefix THEN Some(prefixRaw) ELSE None,
                cmd    |-> loop.parts[1],
                params |-> Tail(loop.parts)]

\* The for loop of _make_irc_command over args[i..], 0-based i.
RECURSIVE MakeArgs(_, _)
MakeArgs(args, i) ==
    IF i >= Len(args) THEN ""
    ELSE LET arg == args[i + 1]
         IN  (IF arg # ""
              THEN " " \o (IF i = Len(args) - 1 /\ Contains(arg, " ") THEN ":" ELSE "") \o arg
              ELSE "")
             \o MakeArgs(args, i + 1)

\* _make_irc_command(cmd, *args, prefix=prefix); prefix is optional.
MakeIrcCommand(cmd, args, prefix) ==
    (IF prefix # None /\ prefix[1] # "" THEN ":" \o prefix[1] \o " " ELSE "")
    \o cmd \o MakeArgs(args, 0) \o "\r\n"


(***************************************************************************)
(* Python dict primitives: a dict is a function on its keys.               *)
(***************************************************************************)

Range(q) == { q[i] : i \in 1..Len(q) }

Put(d, k, v) == [x \in (DOMAIN d) \cup {k} |-> IF x = k THEN v ELSE d[x]]

Del(d, k) == [x \in (DOMAIN d) \ {k} |-> d[x]]

(***************************************************************************)
(* Bounds of the model and the frames its clients send.                    *)
(***************************************************************************)

\* The connections the server may accept.
Sessions == {"s1", "s2"}

\* Frames the clients send in one behaviour, all connections together.
MaxFrames == 3

\* The same, in the behaviours where a transport may hang.
StallFrames == 2

\* The frames a client may write to its connection.
ClientFrames ==
    { "NICK a\r\n", "NICK b\r\n", "NICK\r\n",
      "USER a 0 * :A a\r\n", "USER a\r\n",
      "JOIN #t\r\n", "JOIN\r\n", "JOIN 0\r\n", "JOIN :  \r\n",
      "PART #t\r\n", "PART\r\n",
      "PRIVMSG #t hi\r\n", "PRIVMSG #t :\r\n", "PRIVMSG #t\r\n", "PRIVMSG a hi\r\n",
      "QUIT\r\n", "LIST\r\n",
      ":x NICK b\r\n", "NICK  a\r\n", "PING\r\n",
      ":x USER a 0 * :A a\r\n", ":x QUIT\r\n", ":x JOIN #t\r\n", ":x PART #t\r\n",
      ":x LIST\r\n", ":x PRIVMSG #t hi\r\n" }

(***************************************************************************)
(* State.                                                                  *)
(***************************************************************************)

VARIABLES
    accepting,  \* IRCServer.run: serve_forever is running
    conn,       \* per session: "none" (not accepted yet), "open", "closed"
    task,       \* per session, the handle_user task: "none", "recv" (suspended in
                \* user.recv()), "wait" (suspended in asyncio.wait), "done"
    user,       \* per session, the IRCUser fields
    nicks,      \* IRCServer._nicks
    users,      \* IRCServer._users
    channels,   \* IRCServer._channels, in insertion order
    bcast,      \* per session, the broadcast its handler is suspended in
    ready,      \* the event loop's queue of created send tasks, by broadcaster
    hung,       \* the sessions whose transport never completes a send
    wire,       \* per session, the frames written to its writer and not yet read
    crun,       \* per session, the peer's IRCClient.run loop: "running", "crashed"
    events,     \* per session, the strings its IRCClient posted
    asked,      \* history: per session, the channel names its JOIN commands
                \* named minus those its later PART commands named
    left,       \* frames the clients may still send
    \* One IRCClient and the user interface that drives it.
    gate,       \* IRCClient._login_ev is set
    cnick,      \* IRCClient._nick
    login,      \* the _wait_login task: "none" (not created), "waiting", "done"
    drain,      \* the _send_forever task: "none" (not created), "get"
    queue,      \* IRCClient._msg_queue
    out,        \* the frames written to the client's writer, in order
    lines,      \* history: the lines passed to enqueue_msg, in order
    calls,      \* calls the user interface may still make
    \* The codec functions applied to one input.
    frame,      \* the bytes given to _split_irc_command
    msg,        \* the result of _split_irc_command on frame, or the
                \* (prefix, cmd, params) given to _make_irc_command
    kpc,        \* which function is applied next
    enc,        \* the bytes _make_irc_command returned for msg
    again       \* the result of _split_irc_command on enc

\* The server and its peers.
svars == << accepting, conn, task, user, nicks, users, channels, bcast, ready,
            hung, wire, crun, events, asked, left >>

\* The client adapter.
cvars == << gate, cnick, login, drain, queue, out, lines, calls >>

\* The codec under test.
kvars == << frame, msg, kpc, enc, again >>

vars == << svars, cvars, kvars >>

\* IRCUser.__init__
NewUser == [registered |-> FALSE, nick |-> None, username |-> None,
            realname |-> None, mode |-> 0]

\* IRCUser._server
ServerName == "127.0.0.1"

\* IRCUser._address: every peer of the model connects from the local host.
Address(u) == "127.0.0.1"

\* IRCUser.prefix
Prefix(usr, u) == Str(usr.nick) \o "!" \o Str(usr.username) \o "@" \o Address(u)

\* No broadcast in progress.  Otherwise: the frame, the members whose send
\* task is created and not done, and the locals of the suspended coroutine
\* (chname; text in _privmsg; the names the for loop of JOIN has yet to take).
NoBcast == [command |-> "", pend |-> {}, chname |-> None, text |-> None, rest |-> << >>]

\* class Reply
Reply ==
    [ WELCOME          |-> << "001", "oi oi!" >>,
      ALREADYREGISTRED |-> << "462", "Comando não autorizado (já registrado)" >>,
      NEEDMOREPARAMS   |-> << "461", "Faltam parâmetros" >>,
      LIST             |-> << "322", "" >>,
      LISTEND          |-> << "323", "Fim de LIST" >>,
      NOSUCHNICK       |-> << "401", "Canal/nick inexistente" >>,
      NOTOPIC          |-> << "331", "Sem tópico" >>,
      NAMREPLY         |-> << "353", "" >>,
      ENDOFNAMES       |-> << "366", "Fim da lista de NAMES" >> ]

\* The frame IRCUser.reply(reply, *args) sends, with the default prefix='server'.
ReplyFrame(kind, args) ==
    MakeIrcCommand(Reply[kind][1], args \o << Reply[kind][2] >>, Some(ServerName))

\* IRCUser.send on session r: writer.write(command).  A closed transport
\* drops the bytes.
Send(w, r, command) ==
    IF conn[r] = "open" THEN [w EXCEPT ![r] = Append(@, command)] ELSE w

\* Several sends to one session, in order.
RECURSIVE SendAll(_, _, _)
SendAll(w, r, commands) ==
    IF commands = << >> THEN w
    ELSE SendAll(Send(w, r, Head(commands)), r, Tail(commands))

\* dict lookups on IRCServer._channels
ChanNames == { channels[i].name : i \in 1..Len(channels) }

ChanIdx(chs, name) == CHOOSE i \in 1..Len(chs) : chs[i].name = name

Members(name) == channels[ChanIdx(channels, name)].users

\* IRCServer.__init__, before any connection.
Constructed ==
    /\ accepting = TRUE
    /\ conn = [u \in Sessions |-> "none"]
    /\ task = [u \in Sessions |-> "none"]
    /\ user = [u \in Sessions |-> NewUser]
    /\ nicks = << >>
    /\ users = << >>
    /\ channels = << >>
    /\ bcast = [u \in Sessions |-> NoBcast]
    /\ ready = << >>
    /\ wire = [u \in Sessions |-> << >>]
    /\ crun = [u \in Sessions |-> "running"]
    /\ events = [u \in Sessions |-> << >>]
    /\ asked = [u \in Sessions |-> {}]

\* IRCClient.__init__, before run(): no task exists, nothing is written.
\* With no call left the client stays there.
NoClient ==
    /\ gate = FALSE
    /\ cnick = ""
    /\ login = "none"
    /\ drain = "none"
    /\ queue = << >>
    /\ out = << >>
    /\ lines = << >>
    /\ calls = 0

\* No result of _split_irc_command yet.
NoMsg == [kind |-> "none", prefix |-> None, cmd |-> "", params |-> << >>]

\* No codec function is under test.
NoCodec ==
    /\ frame = ""
    /\ msg = NoMsg
    /\ kpc = "idle"
    /\ enc = ""
    /\ again = NoMsg

\* StreamWriter.write never suspends: no send of the program hangs.
Init ==
    /\ Constructed
    /\ hung = {}
    /\ left = MaxFrames
    /\ NoClient
    /\ NoCodec

\* The peers behind some transports never let a send complete.
InitStall ==
    /\ Constructed
    /\ hung \in SUBSET Sessions
    /\ left = StallFrames
    /\ NoClient
    /\ NoCodec

(***************************************************************************)
(* The server: IRCServer.run, handle_user and the loop of _handle_user.    *)
(***************************************************************************)

\* IRCServer.run, connect(reader, writer): a connection is accepted, its
\* IRCUser is built and its handle_user task starts; the peer's IRCClient.run
\* starts reading.
Accept(u) ==
    /\ accepting
    /\ conn[u] = "none"
    /\ conn' = [conn EXCEPT ![u] = "open"]
    /\ task' = [task EXCEPT ![u] = "recv"]
    /\ user' = [user EXCEPT ![u] = NewUser]
    /\ UNCHANGED << accepting, nicks, users, channels, bcast, ready, hung, wire,
                    crun, events, asked, left >>
    /\ UNCHANGED << cvars, kvars >>

\* Mutant: the exception reaches the server's run loop and stops it.
FailedStopsServer(u) ==
    /\ task' = [task EXCEPT ![u] = "done"]
    /\ accepting' = FALSE

\* handle_user: an exception leaving _handle_user is caught, printed, and the
\* task returns.  Nothing else is done: the writer stays open and the
\* server's maps are not touched.
Failed(u) ==
    /\ task' = [task EXCEPT ![u] = "done"]
    /\ accepting' = accepting

\* The peer closes the connection: user.recv() raises out of readuntil.
Disconnect(u) ==
    /\ task[u] = "recv"
    /\ conn[u] = "open"
    /\ conn' = [conn EXCEPT ![u] = "closed"]
    /\ wire' = [wire EXCEPT ![u] = << >>]
    /\ Failed(u)
    /\ UNCHANGED << user, nicks, users, channels, bcast, ready, hung, crun,
                    events, asked, left >>
    /\ UNCHANGED << cvars, kvars >>

Known == {"NICK", "USER", "QUIT", "JOIN", "PART", "LIST", "PRIVMSG"}

\* sp = _split_irc_command(command), for each frame a client may send.
Decoded == [f \in ClientFrames |-> SplitIrcCommand(f)]

\* Mutant: the loop does not test the prefix.
BranchIgnoringPrefix(sp) ==
    IF sp.kind # "ok" THEN "<malformed>"
    ELSE IF Upper(sp.cmd) \in Known THEN Upper(sp.cmd)
    ELSE "<unknown>"

\* The branch of the loop body of _handle_user that a decoded frame takes.
Branch(sp) ==
    IF sp.kind # "ok" THEN "<malformed>"
    ELSE IF sp.prefix # None /\ sp.prefix[1] # "" THEN "<prefixed>"
    ELSE IF Upper(sp.cmd) \in Known THEN Upper(sp.cmd)
    ELSE "<unknown>"

Dispatched == [f \in ClientFrames |-> Branch(Decoded[f])]

Dispatch(f) == Dispatched[f]

\* parts of a received frame
Parts(f) == Decoded[f].params

\* command = await user.recv() returns frame f, which takes branch c.
Recv(u, f, c) ==
    /\ task[u] = "recv"
    /\ conn[u] = "open"
    /\ left > 0
    /\ Dispatch(f) = c
    /\ left' = left - 1
    /\ UNCHANGED << conn, hung, crun, events >>
    /\ UNCHANGED << cvars, kvars >>

\* The loop goes on to the next recv.
Continue(u) == UNCHANGED << task, accepting >>

\* `if not sp: continue` and `except UnicodeDecodeError: continue`
DropMalformed(u, f) ==
    /\ Recv(u, f, "<malformed>")
    /\ Continue(u)
    /\ UNCHANGED << user, nicks, users, channels, bcast, ready, wire, asked >>

\* `if prefix: continue`
DropPrefixed(u, f) ==
    /\ Recv(u, f, "<prefixed>")
    /\ Continue(u)
    /\ UNCHANGED << user, nicks, users, channels, bcast, ready, wire, asked >>

\* No branch of the if/elif chain matches cmd.
IgnoreUnknown(u, f) ==
    /\ Recv(u, f, "<unknown>")
    /\ Continue(u)
    /\ UNCHANGED << user, nicks, users, channels, bcast, ready, wire, asked >>

\* The NICK branch: the entry under the session's current nick is deleted
\* whoever it maps to; parts[0] raises IndexError on a NICK without parameter.
OnNick(u, f) ==
    /\ Recv(u, f, "NICK")
    /\ LET old     == user[u].nick
           deleted == IF old # None /\ old[1] \in DOMAIN nicks
                      THEN Del(nicks, old[1]) ELSE nicks
       IN  IF Parts(f) = << >>
           THEN /\ nicks' = deleted
                /\ Failed(u)
                /\ UNCHANGED user
           ELSE /\ user' = [user EXCEPT ![u].nick = Some(Parts(f)[1])]
                /\ nicks' = Put(deleted, Parts(f)[1], u)
                /\ Continue(u)
    /\ UNCHANGED << users, channels, bcast, ready, wire, asked >>

\* The value the USER branch stores in _users under the username.
RegisteredValue(u, username) == username

\* Mutant: the USER branch does not look at user.registered.
RegisteredUnchecked(u) == FALSE

\* `if user.registered` of the USER branch
AlreadyRegistered(u) == user[u].registered

\* The USER branch.
OnUser(u, f) ==
    /\ Recv(u, f, "USER")
    /\ Continue(u)
    /\ LET parts == Parts(f)
       IN  IF AlreadyRegistered(u)
           THEN /\ wire' = Send(wire, u, ReplyFrame("ALREADYREGISTRED", << >>))
                /\ UNCHANGED << user, users >>
           ELSE IF Len(parts) < 4
           THEN /\ wire' = Send(wire, u, ReplyFrame("NEEDMOREPARAMS", << "USER" >>))
                /\ UNCHANGED << user, users >>
           ELSE /\ user' = [user EXCEPT ![u] =
                               [registered |-> TRUE,
                                nick       |-> @.nick,
                                username   |-> Some(parts[1]),
                                realname   |-> Some(parts[4]),
                                mode       |-> IF IsInt(parts[2]) THEN IntOf(parts[2])
                                               ELSE @.mode]]
                /\ users' = Put(users, parts[1], RegisteredValue(u, parts[1]))
                /\ wire' = Send(wire, u, ReplyFrame("WELCOME", << parts[1] >>))
    /\ UNCHANGED << nicks, channels, bcast, ready, asked >>

\* The QUIT branch: IRCServer has no _quit, the attribute lookup raises
\* AttributeError.
OnQuit(u, f) ==
    /\ Recv(u, f, "QUIT")
    /\ Failed(u)
    /\ UNCHANGED << user, nicks, users, channels, bcast, ready, wire, asked >>

\* _join up to its first suspension: self._channels[chname] is created if
\* absent and the user added to its _users.
AddMember(chs, chname, u) ==
    IF \E i \in 1..Len(chs) : chs[i].name = chname
    THEN [chs EXCEPT ![ChanIdx(chs, chname)].users = @ \cup {u}]
    ELSE Append(chs, [name |-> chname, users |-> {u}, topic |-> ""])

\* Mutant: broadcast forgets `if u is not exclude`.
RecipientsWithExcluded(members, exclude) == members

\* IRCChannel.broadcast, the list comprehension: one send task per member
\* of the channel at this moment other than `exclude` (a set, empty for None).
Recipients(members, exclude) == members \ exclude

\* _join(user, chname), then the channel names `rest` of the JOIN's for loop:
\* the JOIN frame is built, the send tasks are created and the handler
\* suspends in asyncio.wait (the joiner is a member, so there is a task).
Join(u, chname, rest) ==
    LET chs == AddMember(channels, chname, u)
    IN  /\ channels' = chs
        /\ bcast' = [bcast EXCEPT ![u] =
              [command |-> MakeIrcCommand("JOIN", << chname >>, Some(Prefix(user[u], u))),
               pend    |-> Recipients(chs[ChanIdx(chs, chname)].users, {}),
               chname  |-> Some(chname),
               text    |-> None,
               rest    |-> rest]]
        /\ ready' = Append(ready, u)
        /\ task' = [task EXCEPT ![u] = "wait"]
        /\ accepting' = accepting

\* The JOIN branch.  `JOIN 0` calls self._part, which IRCServer does not
\* have: AttributeError on the first channel of the loop.
OnJoin(u, f) ==
    /\ Recv(u, f, "JOIN")
    /\ LET parts == Parts(f)
       IN  IF parts = << >>
           THEN /\ wire' = Send(wire, u, ReplyFrame("NEEDMOREPARAMS", << "JOIN" >>))
                /\ Continue(u)
                /\ UNCHANGED << channels, bcast, ready, asked >>
           ELSE IF parts[1] = "0"
           THEN /\ IF channels = << >> THEN Continue(u) ELSE Failed(u)
                /\ UNCHANGED << wire, channels, bcast, ready, asked >>
           ELSE /\ Join(u, Head(Split(parts[1], ",")), Tail(Split(parts[1], ",")))
                /\ asked' = [asked EXCEPT ![u] = @ \cup Range(Split(parts[1], ","))]
                /\ UNCHANGED wire
    /\ UNCHANGED << user, nicks, users >>

\* The PART branch: self._part does not exist, AttributeError on the first
\* name (split never returns an empty list).
OnPart(u, f) ==
    /\ Recv(u, f, "PART")
    /\ IF Parts(f) = << >>
       THEN /\ wire' = Send(wire, u, ReplyFrame("NEEDMOREPARAMS", << "PART" >>))
            /\ Continue(u)
            /\ UNCHANGED asked
       ELSE /\ Failed(u)
            /\ asked' = [asked EXCEPT ![u] = @ \ Range(Split(Parts(f)[1], ","))]
            /\ UNCHANGED wire
    /\ UNCHANGED << user, nicks, users, channels, bcast, ready >>

\* The LIST replies for the names asked, in order.
RECURSIVE ListFrames(_)
ListFrames(names) ==
    IF names = << >> THEN << >>
    ELSE (IF Head(names) \in ChanNames
          THEN << ReplyFrame("LIST", << Head(names),
                                       StrOfNat(Cardinality(Members(Head(names)))),
                                       channels[ChanIdx(channels, Head(names))].topic >>) >>
          ELSE << >>)
         \o ListFrames(Tail(names))

\* The LIST branch.
OnList(u, f) ==
    /\ Recv(u, f, "LIST")
    /\ Continue(u)
    /\ LET names == IF Parts(f) # << >> THEN Split(Parts(f)[1], ",")
                    ELSE [i \in 1..Len(channels) |-> channels[i].name]
       IN  wire' = SendAll(wire, u, ListFrames(names) \o << ReplyFrame("LISTEND", << >>) >>)
    /\ UNCHANGED << user, nicks, users, channels, bcast, ready, asked >>

\* The PRIVMSG branch and _privmsg.
OnPrivmsg(u, f) ==
    /\ Recv(u, f, "PRIVMSG")
    /\ LET parts  == Parts(f)
           chname == parts[1]
           cmd    == MakeIrcCommand("PRIVMSG", << chname, parts[2] >>,
                                    Some(Prefix(user[u], u)))
       IN  IF Len(parts) < 2
           THEN /\ wire' = Send(wire, u, ReplyFrame("NEEDMOREPARAMS", << "PRIVMSG" >>))
                /\ Continue(u)
                /\ UNCHANGED << bcast, ready >>
           ELSE IF chname = ""
           THEN \* chname[0]: IndexError
                /\ Failed(u)
                /\ UNCHANGED << wire, bcast, ready >>
           ELSE IF Contains("#&+", At(chname, 0))
           THEN IF chname \notin ChanNames
                THEN /\ wire' = Send(wire, u, ReplyFrame("NOSUCHNICK", << chname >>))
                     /\ Continue(u)
                     /\ UNCHANGED << bcast, ready >>
                ELSE IF Recipients(Members(chname), {u}) = {}
                THEN \* no task is created, broadcast returns at once
                     /\ Continue(u)
                     /\ UNCHANGED << wire, bcast, ready >>
                ELSE /\ bcast' = [bcast EXCEPT ![u] =
                           [command |-> cmd,
                            pend    |-> Recipients(Members(chname), {u}),
                            chname  |-> Some(chname),
                            text    |-> Some(parts[2]),
                            rest    |-> << >>]]
                     /\ ready' = Append(ready, u)
                     /\ task' = [task EXCEPT ![u] = "wait"]
                     /\ UNCHANGED << wire, accepting >>
           ELSE IF chname \notin DOMAIN users
                THEN /\ wire' = Send(wire, u, ReplyFrame("NOSUCHNICK", << chname >>))
                     /\ Continue(u)
                     /\ UNCHANGED << bcast, ready >>
                ELSE IF users[chname] \in Sessions
                THEN /\ wire' = Send(wire, users[chname], cmd)
                     /\ Continue(u)
                     /\ UNCHANGED << bcast, ready >>
                ELSE \* the stored value is a str: it has no send, AttributeError
                     /\ Failed(u)
                     /\ UNCHANGED << wire, bcast, ready >>
    /\ UNCHANGED << user, nicks, users, channels, asked >>

(***************************************************************************)
(* IRCChannel.broadcast after the tasks are created.                       *)
(***************************************************************************)

\* Mutant: the sends go to the members the channel has when they run.
SendTargetsNow(u) ==
    Members(bcast[u].chname[1]) \ (IF bcast[u].text # None THEN {u} ELSE {})

\* The users of the send tasks that broadcast created: `tasks` is built
\* once, from the members the channel had then.
SendTargets(u) == bcast[u].pend

\* The send tasks of the oldest broadcast run, in the event loop's FIFO
\* order and before the timer of the wait can fire: each calls
\* IRCUser.send(command).  The send to a hung transport stays pending.
RunSends(u) ==
    /\ ready # << >>
    /\ u = Head(ready)
    /\ ready' = Tail(ready)
    /\ wire' = [r \in Sessions |->
                   IF r \in SendTargets(u) \ hung
                   THEN Send(wire, r, bcast[u].command)[r] ELSE wire[r]]
    /\ bcast' = [bcast EXCEPT ![u].pend = @ \cap hung]
    /\ UNCHANGED << accepting, conn, task, user, nicks, users, channels, hung,
                    crun, events, asked, left >>
    /\ UNCHANGED << cvars, kvars >>

\* asyncio.wait(tasks, timeout=1) returns once the send tasks have run: when
\* all are done or, with a send still pending, when the timeout fires
\* (pending sends are left alone, no result is read).
\* Mutant: the wait has no timeout, it returns only when every send is done.
WaitOverWhenAllDone(u) == u \notin Range(ready) /\ bcast[u].pend = {}

WaitOver(u) == u \notin Range(ready)

\* Mutant: _join sends its two replies in the other order.
JoinRepliesSwapped(chname) ==
    << ReplyFrame("NAMREPLY", << >>), ReplyFrame("NOTOPIC", << chname >>) >>

\* The replies _join sends the joiner after the broadcast.
JoinReplies(chname) ==
    << ReplyFrame("NOTOPIC", << chname >>), ReplyFrame("NAMREPLY", << >>) >>

\* The handler resumes after the wait.  After the broadcast of a _join the
\* replies are sent and the for loop of JOIN goes on.
BroadcastReturn(u) ==
    /\ task[u] = "wait"
    /\ WaitOver(u)
    /\ IF bcast[u].text # None
       THEN /\ task' = [task EXCEPT ![u] = "recv"]
            /\ bcast' = [bcast EXCEPT ![u] = NoBcast]
            /\ UNCHANGED << wire, channels, ready, accepting >>
       ELSE /\ wire' = SendAll(wire, u, JoinReplies(bcast[u].chname[1]))
            /\ IF bcast[u].rest = << >>
               THEN /\ task' = [task EXCEPT ![u] = "recv"]
                    /\ bcast' = [bcast EXCEPT ![u] = NoBcast]
                    /\ UNCHANGED << channels, ready, accepting >>
               ELSE Join(u, Head(bcast[u].rest), Tail(bcast[u].rest))
    /\ UNCHANGED << conn, user, nicks, users, hung, crun, events, asked, left >>
    /\ UNCHANGED << cvars, kvars >>

(***************************************************************************)
(* The peer: the receive loop of IRCClient.run.                            *)
(***************************************************************************)

\* One turn of the while loop of IRCClient.run on the frame p: the strings
\* posted, and whether an exception leaves the loop (the unpacking of False
\* or UnicodeDecodeError when p does not decode, prefix.split on None,
\* args[1] on a PRIVMSG with one parameter).
ClientTurn(p) ==
    LET sp   == SplitIrcCommand(p)
        nick == Head(Split(sp.prefix[1], "!"))
    IN  IF sp.kind # "ok" \/ sp.prefix = None THEN [raised |-> TRUE, posts |-> << >>]
        ELSE IF sp.cmd = "PRIVMSG"
        THEN IF Len(sp.params) < 2 THEN [raised |-> TRUE, posts |-> << >>]
             ELSE [raised |-> FALSE,
                   posts  |-> << "<" \o nick \o "> " \o sp.params[2] \o "\n" >>]
        ELSE IF sp.cmd = "JOIN"
        THEN [raised |-> FALSE, posts |-> << "*" \o nick \o " entrou no chat*\n" >>]
        ELSE IF sp.cmd = "PART"
        THEN [raised |-> FALSE, posts |-> << "*" \o nick \o " saiu do chat*\n" >>]
        ELSE [raised |-> FALSE, posts |-> << >>]

\* p = await self._user.recv() returns the next frame the server wrote.
ClientRecv(u) ==
    /\ conn[u] = "open"
    /\ crun[u] = "running"
    /\ wire[u] # << >>
    /\ wire' = [wire EXCEPT ![u] = Tail(@)]
    /\ LET turn == ClientTurn(Head(wire[u]))
       IN  /\ events' = [events EXCEPT ![u] = @ \o turn.posts]
           /\ crun' = [crun EXCEPT ![u] = IF turn.raised THEN "crashed" ELSE @]
    /\ UNCHANGED << accepting, conn, task, user, nicks, users, channels, bcast,
                    ready, hung, asked, left >>
    /\ UNCHANGED << cvars, kvars >>

Next ==
    \E u \in Sessions :
        \/ Accept(u)
        \/ Disconnect(u)
        \/ \E f \in ClientFrames :
              \/ DropMalformed(u, f)
              \/ DropPrefixed(u, f)
              \/ IgnoreUnknown(u, f)
              \/ OnNick(u, f)
              \/ OnUser(u, f)
              \/ OnQuit(u, f)
              \/ OnJoin(u, f)
              \/ OnPart(u, f)
              \/ OnList(u, f)
              \/ OnPrivmsg(u, f)
        \/ RunSends(u)
        \/ BroadcastReturn(u)
        \/ ClientRecv(u)

Spec == Init /\ [][Next]_vars

\* The event loop runs every created task and fires every timer.
Fairness ==
    \A u \in Sessions : WF_vars(RunSends(u)) /\ WF_vars(BroadcastReturn(u))

SpecStall == InitStall /\ [][Next]_vars /\ Fairness

(***************************************************************************)
(* The server under registration traffic only: the connections send NICK   *)
(* and USER frames and nothing else, which lets them send more of them.    *)
(***************************************************************************)

\* Frames the clients send in one such behaviour, all connections together.
LoginFrames == 4

\* The frames of a registration.
LoginInputs == { "NICK a\r\n", "NICK b\r\n", "USER a 0 * :A a\r\n" }

InitLogin ==
    /\ Constructed
    /\ hung = {}
    /\ left = LoginFrames
    /\ NoClient
    /\ NoCodec

NextLogin ==
    \E u \in Sessions :
        \/ Accept(u)
        \/ Disconnect(u)
        \/ \E f \in LoginInputs :
              \/ OnNick(u, f)
              \/ OnUser(u, f)
        \/ ClientRecv(u)

SpecLogin == InitLogin /\ [][NextLogin]_vars

(***************************************************************************)
(* The server under frames that carry a prefix, next to the few frames     *)
(* that give the sessions a nick, a registration and a channel.            *)
(***************************************************************************)

\* Frames the clients send in one such behaviour, all connections together.
PrefixedFrames == 3

\* One frame with a prefix for each command of the loop.
WithPrefix ==
    { ":x NICK b\r\n", ":x USER a 0 * :A a\r\n", ":x QUIT\r\n", ":x JOIN #t\r\n",
      ":x PART #t\r\n", ":x LIST\r\n", ":x PRIVMSG #t hi\r\n" }

PrefixedInputs == WithPrefix \cup { "NICK a\r\n", "USER a 0 * :A a\r\n", "JOIN #t\r\n" }

InitPrefixed ==
    /\ Constructed
    /\ hung = {}
    /\ left = PrefixedFrames
    /\ NoClient
    /\ NoCodec

NextPrefixed ==
    \E u \in Sessions :
        \/ Accept(u)
        \/ Disconnect(u)
        \/ \E f \in PrefixedInputs :
              \/ DropPrefixed(u, f)
              \/ OnNick(u, f)
              \/ OnUser(u, f)
              \/ OnJoin(u, f)
        \/ RunSends(u)
        \/ BroadcastReturn(u)
        \/ ClientRecv(u)

SpecPrefixed == InitPrefixed /\ [][NextPrefixed]_vars

(***************************************************************************)
(* The client adapter: IRCClient.run's two tasks and the user interface    *)
(* of main() that drives them.                                             *)
(***************************************************************************)

\* Calls the user interface makes in one behaviour.
ClientCalls == 4

\* The first lines a user may type (the nick is line[:9]).
NickLines == { "ana", "a b", "abcdefghijk" }

\* The lines a caller may pass to enqueue_msg.
ChatLines == { "", "x", "y z" }

\* IRCClient(channel='#t')
Channel == "#t"

\* The longest nick main() keeps of the first line.
MaxNickLen == 9

InitClient ==
    /\ Constructed
    /\ hung = {}
    /\ left = 0
    /\ NoCodec
    /\ gate = FALSE
    /\ cnick = ""
    /\ login = "none"
    /\ drain = "none"
    /\ queue = << >>
    /\ out = << >>
    /\ lines = << >>
    /\ calls = ClientCalls

\* IRCClient.run: the two tasks are created.
Run ==
    /\ login = "none"
    /\ drain = "none"
    /\ login' = "waiting"
    /\ drain' = "get"
    /\ UNCHANGED << gate, cnick, queue, out, lines, calls >>
    /\ UNCHANGED << svars, kvars >>

\* flush(line) of main() on the first non-empty line: the nick is chosen and
\* the gate is set.
ChooseNick(line) ==
    /\ calls > 0
    /\ cnick = ""
    /\ cnick' = Slice(line, 0, MaxNickLen)
    /\ gate' = TRUE
    /\ calls' = calls - 1
    /\ UNCHANGED << login, drain, queue, out, lines >>
    /\ UNCHANGED << svars, kvars >>

\* enqueue_msg(msg): put_nowait on the unbounded queue.
Enqueue(line) ==
    /\ calls > 0
    /\ queue' = Append(queue, line)
    /\ lines' = Append(lines, line)
    /\ calls' = calls - 1
    /\ UNCHANGED << gate, cnick, login, drain, out >>
    /\ UNCHANGED << svars, kvars >>

\* The three frames of _wait_login.
Handshake(nick) ==
    << MakeIrcCommand("NICK", << nick >>, None),
       MakeIrcCommand("USER", << nick, "0", "*", nick >>, None),
       MakeIrcCommand("JOIN", << Channel >>, None) >>

\* Mutant: _wait_login does not wait for the event.
GateIgnored == TRUE

\* `await self._login_ev.wait()` returns.
GateOpen == gate

\* _wait_login past the gate: IRCUser.send never suspends, so the three
\* writes are one step; the coroutine then ends.
WaitLogin ==
    /\ login = "waiting"
    /\ GateOpen
    /\ out' = out \o Handshake(cnick)
    /\ login' = "done"
    /\ UNCHANGED << gate, cnick, drain, queue, lines, calls >>
    /\ UNCHANGED << svars, kvars >>

\* Mutant: the queue hands out the newest item.
DequeueNewest(q) == [item |-> q[Len(q)], rest |-> SubSeq(q, 1, Len(q) - 1)]

\* `await self._msg_queue.get()` on a non-empty asyncio.Queue: the oldest item.
Dequeue(q) == [item |-> Head(q), rest |-> Tail(q)]

\* One turn of _send_forever: get, then send_msg writes the PRIVMSG.
Drain ==
    /\ drain = "get"
    /\ queue # << >>
    /\ queue' = Dequeue(queue).rest
    /\ out' = Append(out, MakeIrcCommand("PRIVMSG", << Channel, Dequeue(queue).item >>, None))
    /\ UNCHANGED << gate, cnick, login, drain, lines, calls >>
    /\ UNCHANGED << svars, kvars >>

NextClient ==
    \/ Run
    \/ \E line \in NickLines : ChooseNick(line)
    \/ \E line \in ChatLines : Enqueue(line)
    \/ WaitLogin
    \/ Drain

SpecClient == InitClient /\ [][NextClient]_vars

(***************************************************************************)
(* The codec on its own: _split_irc_command on some bytes, then            *)
(* _make_irc_command on the result and _split_irc_command again; or        *)
(* _make_irc_command on a given (prefix, cmd, params).                     *)
(***************************************************************************)

\* The longest frame given to the decoder, CRLF not counted.
MaxBody == 4

\* The most arguments given to the encoder.
MaxArgs == 3

\* The bytes the frames given to the decoder are made of.
CodecBytes == { ":", " ", "a", "b" }

\* The byte strings of length n over CodecBytes.
RECURSIVE BodiesOfLen(_)
BodiesOfLen(n) ==
    IF n = 0 THEN { "" }
    ELSE { b \o c : b \in BodiesOfLen(n - 1), c \in CodecBytes }

\* The frames given to the decoder: every body up to MaxBody bytes with its
\* CRLF, and two that lack it.
CodecFrames ==
    { b \o "\r\n" : b \in UNION { BodiesOfLen(n) : n \in 0..MaxBody } }
    \cup { "a b", "a b\n" }

\* The arguments given to the encoder.
CodecArgs == { "", "a", "a b", ":a" }

RECURSIVE ArgsOfLen(_)
ArgsOfLen(n) ==
    IF n = 0 THEN { << >> }
    ELSE { Append(q, x) : q \in ArgsOfLen(n - 1), x \in CodecArgs }

\* The (prefix, cmd, params) given to the encoder.
CodecMsgs ==
    { [kind |-> "ok", prefix |-> p, cmd |-> "X", params |-> q] :
        p \in { None, Some(""), Some("p") },
        q \in UNION { ArgsOfLen(n) : n \in 0..MaxArgs } }

InitCodec ==
    /\ Constructed
    /\ hung = {}
    /\ left = 0
    /\ NoClient
    /\ enc = ""
    /\ again = NoMsg
    /\ \/ frame \in CodecFrames /\ msg = NoMsg /\ kpc = "split"
       \/ frame = "" /\ msg \in CodecMsgs /\ kpc = "make"

\* msg = _split_irc_command(frame)
SplitFrame ==
    /\ kpc = "split"
    /\ msg' = SplitIrcCommand(frame)
    /\ kpc' = IF msg'.kind = "ok" THEN "make" ELSE "done"
    /\ UNCHANGED << frame, enc, again >>
    /\ UNCHANGED << svars, cvars >>

\* enc = _make_irc_command(cmd, *params, prefix=prefix)
MakeFrame ==
    /\ kpc = "make"
    /\ enc' = MakeIrcCommand(msg.cmd, msg.params, msg.prefix)
    /\ kpc' = "again"
    /\ UNCHANGED << frame, msg, again >>
    /\ UNCHANGED << svars, cvars >>

\* again = _split_irc_command(enc)
SplitAgain ==
    /\ kpc = "again"
    /\ again' = SplitIrcCommand(enc)
    /\ kpc' = "done"
    /\ UNCHANGED << frame, msg, enc >>
    /\ UNCHANGED << svars, cvars >>

NextCodec == SplitFrame \/ MakeFrame \/ SplitAgain

SpecCodec == InitCodec /\ [][NextCodec]_vars

(***************************************************************************)
(* Properties.                                                             *)
(***************************************************************************)

\* The channel names whose member set holds session u.
JoinedBy(u) == { channels[i].name : i \in { j \in 1..Len(channels) : u \in channels[j].users } }

\* The session is the value of an entry of the nick map.
InNicks(u) == \E n \in DOMAIN nicks : nicks[n] = u

Last(q) == q[Len(q)]

\* C1: once a connection task has ended, its session is the value of no
\* entry of the nick map and a member of no channel.
C1_EndedTaskIsUnregistered ==
    \A u \in Sessions : task[u] = "done" => ~InNicks(u) /\ JoinedBy(u) = {}

\* C2: whenever a session's handler is between commands (or has ended), the
\* channels that hold the session are exactly the names it joined minus the
\* names it parted since; in particular a PART leaves the handler running.
C2_MembershipIsJoinedMinusParted ==
    \A u \in Sessions : task[u] \in {"recv", "done"} => JoinedBy(u) = asked[u]

\* The PRIVMSG a handler is broadcasting starts with the sender's prefix.
HasSenderPrefix(u, command, chname) ==
    LET head == ":" \o Prefix(user[u], u) \o " PRIVMSG " \o chname
    IN  Slice(command, 0, Len(head)) = head

\* C3: a PRIVMSG to an existing channel creates one send per member of the
\* channel other than the sender, of a frame that carries the sender's
\* prefix; when the sends run, each of those members' transports is written
\* that frame and the sender's is written nothing.
C3_ChannelPrivmsgReachesOtherMembers ==
    [][\A u \in Sessions :
         /\ \A f \in ClientFrames :
              (/\ OnPrivmsg(u, f)
               /\ Len(Parts(f)) >= 2
               /\ Parts(f)[1] \in ChanNames
               /\ Contains("#&+", At(Parts(f)[1], 0)))
              => IF Members(Parts(f)[1]) \ {u} = {}
                 THEN wire' = wire /\ task'[u] = "recv"
                 ELSE /\ task'[u] = "wait"
                      /\ bcast'[u].pend = Members(Parts(f)[1]) \ {u}
                      /\ HasSenderPrefix(u, bcast'[u].command, Parts(f)[1])
         /\ (RunSends(u) /\ bcast[u].text # None)
              => /\ \A r \in bcast[u].pend :
                      conn[r] = "open" => wire'[r] = Append(wire[r], bcast[u].command)
                 /\ \A r \in Sessions \ bcast[u].pend : wire'[r] = wire[r]
                 /\ wire'[u] = wire[u]
      ]_vars

\* C3 witness: the sends of a channel PRIVMSG have run and the frame is the
\* last one written to another session.
C3_Witness ==
    \E u \in Sessions : \E r \in Sessions \ {u} :
        /\ task[u] = "wait" /\ bcast[u].text # None /\ WaitOver(u)
        /\ wire[r] # << >> /\ Last(wire[r]) = bcast[u].command
        /\ user[u].nick # None

\* C4: when A and B are members of a channel and A sends it a PRIVMSG, the
\* frame the server sends, taken through one turn of B's receive loop,
\* raises exactly one chat event with A's nick and the text A sent and
\* leaves the loop running; A is not among the recipients.
C4_ChatEventEndToEnd ==
    \A a \in Sessions :
        (/\ task[a] = "wait" /\ bcast[a].text # None
         /\ a \in Members(bcast[a].chname[1])
         /\ Members(bcast[a].chname[1]) # {a})
        => /\ a \notin bcast[a].pend
           /\ ClientTurn(bcast[a].command) =
                 [raised |-> FALSE,
                  posts  |-> << "<" \o Str(user[a].nick) \o "> " \o bcast[a].text[1] \o "\n" >>]

\* C5: when the send tasks of a broadcast run, every recipient whose
\* transport does not hang is written the frame, and a handler suspended in
\* a broadcast always resumes its loop, whether or not a send hangs.
C5_BroadcastSurvivesHungSend ==
    /\ [][\A u \in Sessions :
            RunSends(u) => \A r \in bcast[u].pend \ hung :
                              conn[r] = "open" => wire'[r] = Append(wire[r], bcast[u].command)
         ]_vars
    /\ \A u \in Sessions : (task[u] = "wait") ~> (task[u] = "recv")

\* C5 witness: the sends of a broadcast have run, one is still pending on a
\* hung transport and another member has been written the frame.
C5_Witness ==
    \E u \in Sessions : \E r \in Sessions \ hung :
        /\ task[u] = "wait" /\ WaitOver(u)
        /\ bcast[u].pend # {} /\ bcast[u].pend \subseteq hung
        /\ wire[r] # << >> /\ Last(wire[r]) = bcast[u].command

\* C6: a step in which a connection task ends leaves the server accepting
\* and changes the position of no other connection's task.
C6_FailureEndsOnlyItsTask ==
    [][\A u \in Sessions :
         (task[u] # "done" /\ task'[u] = "done")
         => /\ accepting'
            /\ \A v \in Sessions \ {u} : task'[v] = task[v] /\ bcast'[v] = bcast[v]
      ]_vars

\* C6 witness: one task has ended on an exception (its connection is still
\* open) while another connection is being served and the server accepts.
C6_Witness ==
    \E u \in Sessions : \E v \in Sessions \ {u} :
        /\ task[u] = "done" /\ conn[u] = "open"
        /\ task[v] = "recv" /\ user[v].nick # None
        /\ accepting

\* A frame of a dispatched command with too few parameters.
TooFewParams(u, f) ==
    \/ Dispatch(f) \in {"NICK", "JOIN", "PART"} /\ Parts(f) = << >>
    \/ Dispatch(f) = "USER" /\ Len(Parts(f)) < 4 /\ ~user[u].registered
    \/ Dispatch(f) = "PRIVMSG" /\ Len(Parts(f)) < 2

\* Some handler of the loop takes frame f of session u in this step.
Handles(u, f) ==
    \/ OnNick(u, f) \/ OnUser(u, f) \/ OnJoin(u, f) \/ OnPart(u, f) \/ OnPrivmsg(u, f)

\* C7: a dispatched command with too few parameters is answered with
\* NEEDMOREPARAMS, changes no session, directory or channel state, and the
\* loop goes on to the next frame.
C7_TooFewParamsIsAnswered ==
    [][\A u \in Sessions : \A f \in ClientFrames :
         (TooFewParams(u, f) /\ Handles(u, f))
         => /\ wire'[u] = Append(wire[u], ReplyFrame("NEEDMOREPARAMS", << Dispatch(f) >>))
            /\ task'[u] = "recv"
            /\ UNCHANGED << user, nicks, users, channels >>
      ]_vars

\* C8: a frame that does not decode is dropped by the server loop and by the
\* client receive loop alike: no state changes, nothing is emitted, and the
\* loop reads on.
C8_DecodeFailureIsDropped ==
    [][\A u \in Sessions :
         /\ \A f \in ClientFrames :
              DropMalformed(u, f)
              => /\ task'[u] = "recv"
                 /\ UNCHANGED << user, nicks, users, channels, wire, bcast >>
         /\ (ClientRecv(u) /\ SplitIrcCommand(Head(wire[u])).kind # "ok")
              => crun'[u] = "running" /\ events'[u] = events[u]
      ]_vars

\* C9: a USER from a registered session changes neither the session nor the
\* registered-user directory and is answered ALREADYREGISTRED; registered
\* never goes from true to false.
C9_SecondUserIsRejected ==
    [][\A u \in Sessions :
         /\ \A f \in ClientFrames :
              (OnUser(u, f) /\ user[u].registered)
              => /\ user'[u] = user[u]
                 /\ users' = users
                 /\ wire'[u] = Append(wire[u], ReplyFrame("ALREADYREGISTRED", << >>))
         /\ user[u].registered => user'[u].registered
      ]_vars

\* C9 witness: a registered session has been answered 462.
C9_Witness ==
    \E u \in Sessions :
        /\ user[u].registered
        /\ wire[u] # << >>
        /\ Last(wire[u]) = ":127.0.0.1 462 :Comando não autorizado (já registrado)\r\n"

\* C10: a registered session has a nick.
C10_RegisteredHasNick ==
    \A u \in Sessions : user[u].registered => user[u].nick # None

\* C11: no two distinct registered sessions that have a nick have the same
\* nick.
C11_RegisteredNicksAreUnique ==
    \A u \in Sessions : \A v \in Sessions \ {u} :
        (user[u].registered /\ user[v].registered /\ user[u].nick # None)
        => user[u].nick # user[v].nick

\* C12: the step that processes a QUIT of a session leaves the session a
\* member of no channel, the value of no entry of the nick map or of the
\* registered-user directory, and its connection closed.
C12_QuitRemovesAndCloses ==
    [][\A u \in Sessions : \A f \in ClientFrames :
         OnQuit(u, f)
         => /\ \A i \in 1..Len(channels') : u \notin channels'[i].users
            /\ \A n \in DOMAIN nicks' : nicks'[n] # u
            /\ \A n \in DOMAIN users' : users'[n] # u
            /\ conn'[u] = "closed"
      ]_vars

\* A PRIVMSG frame with both parameters whose target is not a channel name.
ToUserTarget(f) ==
    /\ Dispatch(f) = "PRIVMSG"
    /\ Len(Parts(f)) >= 2
    /\ Parts(f)[1] # ""
    /\ ~Contains("#&+", At(Parts(f)[1], 0))

\* C13: every value of the registered-user directory is the session that
\* registered under its key; a PRIVMSG to a name of the directory writes the
\* frame, with the sender's prefix, to that session and the sender's loop
\* goes on; a PRIVMSG to a name that is not in the directory is answered
\* NOSUCHNICK.
C13_UserPrivmsgIsForwarded ==
    /\ [](\A n \in DOMAIN users :
             users[n] \in Sessions /\ user[users[n]].username = Some(n))
    /\ [][\A u \in Sessions : \A f \in ClientFrames :
            (OnPrivmsg(u, f) /\ ToUserTarget(f))
            => IF Parts(f)[1] \in DOMAIN users
               THEN /\ users[Parts(f)[1]] \in Sessions
                    /\ wire'[users[Parts(f)[1]]] =
                          Append(wire[users[Parts(f)[1]]],
                                 MakeIrcCommand("PRIVMSG", << Parts(f)[1], Parts(f)[2] >>,
                                                Some(Prefix(user[u], u))))
                    /\ task'[u] = "recv"
               ELSE wire'[u] = Append(wire[u], ReplyFrame("NOSUCHNICK", << Parts(f)[1] >>))
         ]_vars

\* A frame the client wrote is a chat frame.
IsChat(fr) == SplitIrcCommand(fr).cmd = "PRIVMSG"

IsLogin(fr) == ~IsChat(fr)

\* The frames of the login handshake the client has written, in order.
LoginWritten == SelectSeq(out, IsLogin)

\* The chat frames the client has written, in order.
ChatWritten == SelectSeq(out, IsChat)

\* C14: the client writes no handshake frame before the gate is set; once
\* _wait_login has run, the handshake frames written are exactly a NICK of
\* the chosen nick, a USER and a JOIN of the configured channel, in that
\* order and next to each other in the stream; and _wait_login never runs
\* again.
C14_LoginHandshakeOnceAfterGate ==
    /\ [](/\ ~gate => LoginWritten = << >>
          /\ login # "done" => LoginWritten = << >>
          /\ login = "done" =>
                /\ gate
                /\ Len(LoginWritten) = 3
                /\ [i \in 1..3 |-> SplitIrcCommand(LoginWritten[i]).cmd]
                      = << "NICK", "USER", "JOIN" >>
                /\ SplitIrcCommand(LoginWritten[1]).params = << cnick >>
                /\ SplitIrcCommand(LoginWritten[3]).params = << Channel >>
                /\ \E i \in 1..Len(out) - 2 : SubSeq(out, i, i + 2) = LoginWritten)
    /\ [][login = "done" => login' = "done"]_vars

\* C14 witness: the handshake was written after a chat frame and is followed
\* by another, with a nick cut to nine characters.
C14_Witness ==
    /\ login = "done"
    /\ cnick = "abcdefghi"
    /\ Len(out) >= 5
    /\ IsChat(out[1])
    /\ IsChat(out[Len(out)])

\* C15: the chat frames written are one per line taken from the queue, in
\* the order of the calls of enqueue_msg: frame i is a PRIVMSG to the
\* configured channel carrying line i, and the queue holds the lines not
\* yet written, in order.
C15_DrainKeepsOrder ==
    /\ Len(ChatWritten) + Len(queue) = Len(lines)
    /\ \A i \in 1..Len(ChatWritten) :
          SplitIrcCommand(ChatWritten[i]).params =
             (IF lines[i] = "" THEN << Channel >> ELSE << Channel, lines[i] >>)
    /\ \A i \in 1..Len(queue) : queue[i] = lines[Len(ChatWritten) + i]

\* C15 witness: two different lines have been written while a third,
\* submitted in between, waits in the queue.
C15_Witness ==
    /\ Len(ChatWritten) = 2
    /\ Len(lines) = 3
    /\ lines[1] # lines[2]
    /\ queue = << lines[3] >>
    /\ login = "done"

\* C16: when some bytes decode to (prefix, command, params), the bytes the
\* encoder makes of that triple decode to the same triple.
C16_CodecRoundTrip ==
    (frame # "" /\ msg.kind = "ok" /\ kpc = "done") => again = msg

\* The non-empty arguments, in order.
NonEmptyArgs(args) == SelectSeq(args, LAMBDA x : x # "")

\* Each of the arguments q[i..] after one space, the last one after a ':'
\* as well when it holds a space.
RECURSIVE SpacedArgs(_, _)
SpacedArgs(q, i) ==
    IF i > Len(q) THEN ""
    ELSE " " \o (IF i = Len(q) /\ Contains(q[i], " ") THEN ":" ELSE "") \o q[i]
         \o SpacedArgs(q, i + 1)

\* C17: the encoder's bytes are ':prefix ' when the prefix is non-empty, the
\* command, each non-empty argument after one space, the last non-empty
\* argument after a ':' too exactly when it holds a space and no other
\* argument after a ':', and CRLF.
C17_MakeMarksLastNonEmptyArg ==
    kpc \in { "again", "done" } /\ msg.kind = "ok"
    => enc = (IF msg.prefix # None /\ msg.prefix[1] # ""
              THEN ":" \o msg.prefix[1] \o " " ELSE "")
             \o msg.cmd \o SpacedArgs(NonEmptyArgs(msg.params), 1) \o "\r\n"

\* The frame, without its CRLF.
Body == Slice(frame, 0, -2)

\* The frame is a ':'-introduced prefix and nothing else, with or without
\* a space after it.
PrefixOnly ==
    /\ Len(frame) >= MinFrameLen
    /\ At(Body, 0) = ":"
    /\ Find(Body, " ", 0) \in { -1, Len(Body) - 1 }

\* C18: decoding a frame that is only a prefix fails, and when decoding a
\* frame that starts with ':' succeeds the prefix returned is the text
\* between the ':' and the first space.
C18_SplitNeedsCommand ==
    (frame # "" /\ kpc # "split" /\ Slice(frame, -2, Len(frame)) = "\r\n")
    => /\ PrefixOnly => msg.kind = "false"
       /\ (msg.kind = "ok" /\ At(Body, 0) = ":")
            => /\ Find(Body, " ", 0) # -1
               /\ msg.prefix = Some(Slice(Body, 1, Find(Body, " ", 0)))

\* The first channel name a JOIN frame with a parameter other than 0 names.
FirstJoined(f) == Head(Split(Parts(f)[1], ","))

\* The frame starts with the bytes `head`.
StartsWith(fr, head) == Slice(fr, 0, Len(head)) = head

\* C19: the step that processes a JOIN creates the channel if it is absent,
\* adds the session to its members and creates one send per member of the
\* new membership, the joiner included, of a JOIN frame with the joiner's
\* prefix, and writes nothing to the joiner yet; the sends write that frame
\* to each of them; only when they have run is the joiner written the 331
\* reply for the channel and then the 353 reply.
C19_JoinBroadcastsThenReplies ==
    [][\A u \in Sessions :
         /\ \A f \in ClientFrames :
              (OnJoin(u, f) /\ Parts(f) # << >> /\ Parts(f)[1] # "0")
              => /\ Len(channels') = Len(channels)
                                      + (IF FirstJoined(f) \in ChanNames THEN 0 ELSE 1)
                 /\ \E i \in 1..Len(channels') :
                       /\ channels'[i].name = FirstJoined(f)
                       /\ channels'[i].users =
                             (IF FirstJoined(f) \in ChanNames
                              THEN Members(FirstJoined(f)) ELSE {}) \cup {u}
                       /\ bcast'[u].pend = channels'[i].users
                 /\ SplitIrcCommand(bcast'[u].command) =
                       [kind |-> "ok", prefix |-> Some(Prefix(user[u], u)),
                        cmd |-> "JOIN", params |-> << FirstJoined(f) >>]
                 /\ task'[u] = "wait"
                 /\ wire' = wire
         /\ (RunSends(u) /\ bcast[u].text = None)
              => /\ u \in bcast[u].pend
                 /\ \A r \in bcast[u].pend :
                       conn[r] = "open" => wire'[r] = Append(wire[r], bcast[u].command)
                 /\ bcast'[u].pend = {}
         /\ (BroadcastReturn(u) /\ bcast[u].text = None)
              => /\ bcast[u].pend = {}
                 /\ Len(wire'[u]) = Len(wire[u]) + 2
                 /\ SubSeq(wire'[u], 1, Len(wire[u])) = wire[u]
                 /\ StartsWith(wire'[u][Len(wire[u]) + 1],
                               ":127.0.0.1 331 " \o bcast[u].chname[1] \o " ")
                 /\ wire'[u][Len(wire[u]) + 2] = ":127.0.0.1 353\r\n"
      ]_vars

\* C19 witness: a session with a nick joined a channel that had a member:
\* it has been written its JOIN frame, 331 and 353, in that order, and the
\* older member has been written the same JOIN frame.
C19_Witness ==
    \E u \in Sessions : \E v \in Sessions \ {u} :
        /\ task[u] = "recv"
        /\ "#t" \in ChanNames
        /\ Members("#t") = {u, v}
        /\ wire[u] = << ":a!None@127.0.0.1 JOIN #t\r\n",
                        ":127.0.0.1 331 #t :Sem tópico\r\n",
                        ":127.0.0.1 353\r\n" >>
        /\ wire[v] # << >>
        /\ Last(wire[v]) = ":a!None@127.0.0.1 JOIN #t\r\n"

\* C20: the sends of a broadcast go to the sessions of the snapshot taken
\* when broadcast was called and to no other session, once each, and never
\* run again; a step of another connection's handler, which may add a
\* member to the channel, does not change the snapshot.
C20_RecipientsAreSnapshot ==
    [][\A u \in Sessions :
         /\ RunSends(u)
              => /\ \A r \in Sessions :
                       wire'[r] = IF r \in bcast[u].pend /\ conn[r] = "open"
                                  THEN Append(wire[r], bcast[u].command)
                                  ELSE wire[r]
                 /\ bcast'[u].pend = {}
                 /\ u \notin Range(ready')
         /\ (task[u] = "wait" /\ ~RunSends(u) /\ ~BroadcastReturn(u))
              => bcast'[u] = bcast[u]
      ]_vars

\* C20 witness: while the sends of u's broadcast were waiting to run,
\* session v joined the channel; the sends have run, u has been written the
\* frame and v, a member now, has not.
C20_Witness ==
    \E u \in Sessions : \E v \in Sessions \ {u} :
        /\ task[u] = "wait" /\ WaitOver(u)
        /\ task[v] = "wait" /\ ~WaitOver(v)
        /\ bcast[u].chname = bcast[v].chname
        /\ {u, v} \subseteq Members(bcast[u].chname[1])
        /\ bcast[u].command # bcast[v].command
        /\ wire[u] # << >> /\ Last(wire[u]) = bcast[u].command
        /\ wire[v] = << >>

\* The bytes of the frame decode and start with a non-empty prefix.
CarriesPrefix(f) ==
    /\ Decoded[f].kind = "ok"
    /\ At(f, 0) = ":"
    /\ Find(f, " ", 0) > 1

\* The loop of session u takes frame f in this step, whatever it does with it.
Takes(u, f) ==
    \/ DropMalformed(u, f) \/ DropPrefixed(u, f) \/ IgnoreUnknown(u, f)
    \/ OnNick(u, f) \/ OnUser(u, f) \/ OnQuit(u, f) \/ OnJoin(u, f)
    \/ OnPart(u, f) \/ OnList(u, f) \/ OnPrivmsg(u, f)

\* C21: the step in which the server takes a frame with a non-empty prefix
\* changes no session, no directory and no channel, writes nothing to any
\* connection, starts no broadcast, and leaves the loop at its next read.
C21_PrefixedFrameIsDiscarded ==
    [][\A u \in Sessions : \A f \in ClientFrames :
         (CarriesPrefix(f) /\ Takes(u, f))
         => /\ task'[u] = "recv"
            /\ UNCHANGED << user, nicks, users, channels, wire, bcast, ready,
                            conn, accepting >>
      ]_vars

\* C21 witness: the only connection joined #t once and read the three
\* frames of that; the two other frames it sent, which carried a prefix,
\* left it without nick or registration and wrote nothing.
C21_Witness ==
    \E u \in Sessions :
        /\ \A v \in Sessions \ {u} : conn[v] = "none"
        /\ conn[u] = "open" /\ task[u] = "recv"
        /\ left = 0
        /\ user[u] = NewUser
        /\ nicks = << >> /\ users = << >>
        /\ Len(channels) = 1 /\ channels[1].users = {u}
        /\ wire[u] = << >>
        /\ Len(events[u]) = 1

\* C22: a NICK of session u leaves in place every entry of the nick map
\* that maps a nick, other than the one u asks for, to another session.
C22_NickKeepsOthersEntries ==
    [][\A u \in Sessions : \A f \in ClientFrames :
         OnNick(u, f)
         => \A n \in DOMAIN nicks :
               (nicks[n] # u /\ (Parts(f) = << >> \/ n # Parts(f)[1]))
               => n \in DOMAIN nicks' /\ nicks'[n] = nicks[n]
      ]_vars

\* C23: every chat frame the client has written comes after the three
\* frames of the login handshake.
C23_NoChatBeforeHandshake ==
    \A i \in 1..Len(out) :
        IsChat(out[i]) => Len(SelectSeq(SubSeq(out, 1, i - 1), IsLogin)) = 3

=============================================================================
